---- MODULE Spec2Model ----
(***************************************************************************)
(* Security::PeerOptions of squid (src/security/PeerOptions.cc): the       *)
(* per-peer TLS configuration entity, its directive parser, the options=   *)
(* and flags= resolvers, the version reconciler and the configuration      *)
(* dump.  Texts are strings, handled character by character the way the    *)
(* Parser::Tokenizer handles them.  Bitmasks are sets of bit positions:    *)
(* OR is \cup, AND-NOT is \, zero is {}.  The directive parser and the     *)
(* resolvers are those of the OpenSSL build (USE_OPENSSL, OpenSSL 1.0.1    *)
(* option values); the context builder is modelled for every build.        *)
(***************************************************************************)
EXTENDS Integers, Sequences, FiniteSets, TLC

VARIABLES
    build,     \* the build configuration the program was compiled in
    opts,      \* the PeerOptions entity being configured
    aborted,   \* the process has ended in fatal()
    ctx,       \* the context the last createClientContext() returned
    hist,      \* the operations performed so far, oldest first, each with
               \* the entity it started from
    calls      \* where each connection-setup call site is in its
               \* createClientContext() call, and the add it has chosen

vars == <<build, opts, aborted, ctx, hist, calls>>

(***************************************************************************)
(* Characters and strings                                                  *)
(***************************************************************************)
CharAt(s, i) == SubSeq(s, i, i)

CharsOf(s) == { CharAt(s, i) : i \in 1..Len(s) }

StartsWith(s, p) == Len(s) >= Len(p) /\ SubSeq(s, 1, Len(p)) = p

DropFirst(s, n) == SubSeq(s, n + 1, Len(s))

DIGIT == "0123456789"

UPPER == "ABCDEFGHIJKLMNOPQRSTUVWXYZ"

LOWER == "abcdefghijklmnopqrstuvwxyz"

IndexIn(c, s) == CHOOSE i \in 1..Len(s) : CharAt(s, i) = c

\* the bit positions set in the non-negative integer n
RECURSIVE BitsFrom(_, _)
BitsFrom(n, pos) ==
    IF n = 0 THEN {}
    ELSE (IF n % 2 = 1 THEN {pos} ELSE {}) \cup BitsFrom(n \div 2, pos + 1)

BitsOf(n) == BitsFrom(n, 0)

(***************************************************************************)
(* Parser::Tokenizer.  A tokenizer is its unparsed remainder; every        *)
(* primitive returns whether it matched and the remainder it leaves.       *)
(***************************************************************************)
npos == -1

atEnd(buf) == buf = ""

\* Tokenizer::skip(const SBuf &) and Tokenizer::skip(char)
skip(buf, tokenToSkip) ==
    IF StartsWith(buf, tokenToSkip)
    THEN [ok |-> TRUE, rest |-> DropFirst(buf, Len(tokenToSkip))]
    ELSE [ok |-> FALSE, rest |-> buf]

\* Tokenizer::skipOne(const CharacterSet &)
skipOne(buf, chars) ==
    IF buf # "" /\ Head(buf) \in chars
    THEN [ok |-> TRUE, rest |-> Tail(buf)]
    ELSE [ok |-> FALSE, rest |-> buf]

\* length of the longest prefix of buf made of characters of chars
RECURSIVE SpanLen(_, _)
SpanLen(buf, chars) ==
    IF buf # "" /\ Head(buf) \in chars THEN 1 + SpanLen(Tail(buf), chars) ELSE 0

\* Tokenizer::skipAll(const CharacterSet &)
SkipFirst(buf, n) == [ok |-> n > 0, rest |-> DropFirst(buf, n)]

skipAll(buf, chars) == SkipFirst(buf, SpanLen(buf, chars))

\* Tokenizer::prefix(SBuf &returnedToken, const CharacterSet &)
TakeFirst(buf, n) ==
    [ok |-> n > 0, token |-> SubSeq(buf, 1, n), rest |-> DropFirst(buf, n)]

prefix(buf, chars) == TakeFirst(buf, SpanLen(buf, chars))

\* the value of one character as a digit; 99 for a character that is none
DigitValue(c) ==
    IF c \in CharsOf(DIGIT) THEN IndexIn(c, DIGIT) - 1
    ELSE IF c \in CharsOf(UPPER) THEN IndexIn(c, UPPER) + 9
    ELSE IF c \in CharsOf(LOWER) THEN IndexIn(c, LOWER) + 9
    ELSE 99

\* the digit loop of Tokenizer::int64: [n |-> digits consumed, acc |-> value]
RECURSIVE AccumulateDigits(_, _, _, _)
AccumulateDigit(s, base, n, acc, c) ==
    IF c < base THEN AccumulateDigits(Tail(s), base, n + 1, acc * base + c)
    ELSE [n |-> n, acc |-> acc]

AccumulateDigits(s, base, n, acc) ==
    IF s = "" THEN [n |-> n, acc |-> acc]
    ELSE AccumulateDigit(s, base, n, acc, DigitValue(Head(s)))

NoInt64(buf) == [ok |-> FALSE, value |-> 0, rest |-> buf]

\* the characters int64 may convert: the first limit characters of buf
Limited(buf, limit) ==
    IF limit = npos \/ limit > Len(buf) THEN buf ELSE SubSeq(buf, 1, limit)

\* the length of the "0x" a base-16 number may start with
HexPrefixLen(range, base) ==
    IF base = 16 /\ Len(range) >= 2 /\ CharAt(range, 1) = "0"
                 /\ CharAt(range, 2) \in {"x", "X"}
    THEN 2 ELSE 0

Int64Result(buf, start, digits) ==
    IF digits.n = 0 THEN NoInt64(buf)
    ELSE [ok |-> TRUE, value |-> digits.acc,
          rest |-> DropFirst(buf, start + digits.n)]

Int64From(buf, base, range, start) ==
    Int64Result(buf, start,
                AccumulateDigits(DropFirst(range, start), base, 0, 0))

\* Tokenizer::int64(result, base, allowSign = false, limit) for base 10 or 16
int64(buf, base, limit) ==
    IF buf = "" \/ limit = 0 THEN NoInt64(buf)
    ELSE Int64From(buf, base, Limited(buf, limit),
                   HexPrefixLen(Limited(buf, limit), base))

XatoiResult(r) ==
    IF r.ok /\ r.rest = "" THEN [fatal |-> FALSE, value |-> r.value]
    ELSE [fatal |-> TRUE, value |-> 0]

\* xatoi(): a decimal integer; anything else is a fatal configuration error
xatoi(s) == XatoiResult(int64(s, 10, npos))

(***************************************************************************)
(* OpenSSL option bits (openssl/ssl.h of OpenSSL 1.0.1) and squid's flag   *)
(* bits, as sets of bit positions.                                         *)
(***************************************************************************)
SSL_OP_NO_SSLv2 == {24}

SSL_OP_NO_SSLv3 == {25}

SSL_OP_NO_TLSv1 == {26}

SSL_OP_NO_TLSv1_2 == {27}

SSL_OP_NO_TLSv1_1 == {28}

SSL_OP_ALL == (0..9) \cup {11, 31}

\* the static name -> value table of parseOptions(); entries whose macro is
\* zero or undefined in the build are compiled out
ssl_options == <<
    [name |-> "NETSCAPE_REUSE_CIPHER_CHANGE_BUG", value |-> {3}],
    [name |-> "SSLREF2_REUSE_CERT_TYPE_BUG", value |-> {4}],
    [name |-> "MICROSOFT_BIG_SSLV3_BUFFER", value |-> {5}],
    [name |-> "SSLEAY_080_CLIENT_DH_BUG", value |-> {7}],
    [name |-> "TLS_D5_BUG", value |-> {8}],
    [name |-> "TLS_BLOCK_PADDING_BUG", value |-> {9}],
    [name |-> "TLS_ROLLBACK_BUG", value |-> {23}],
    [name |-> "ALL", value |-> SSL_OP_ALL],
    [name |-> "SINGLE_DH_USE", value |-> {20}],
    [name |-> "EPHEMERAL_RSA", value |-> {21}],
    [name |-> "NETSCAPE_CA_DN_BUG", value |-> {29}],
    [name |-> "CIPHER_SERVER_PREFERENCE", value |-> {22}],
    [name |-> "NETSCAPE_DEMO_CIPHER_CHANGE_BUG", value |-> {30}],
    [name |-> "NO_SSLv3", value |-> SSL_OP_NO_SSLv3],
    [name |-> "NO_TLSv1", value |-> SSL_OP_NO_TLSv1],
    [name |-> "NO_TLSv1_1", value |-> SSL_OP_NO_TLSv1_1],
    [name |-> "NO_TLSv1_2", value |-> SSL_OP_NO_TLSv1_2],
    [name |-> "No_Compression", value |-> {17}],
    [name |-> "NO_TICKET", value |-> {14}],
    [name |-> "SINGLE_ECDH_USE", value |-> {19}],
    [name |-> "", value |-> {}] >>

SSL_FLAG_NO_DEFAULT_CA == {0}

SSL_FLAG_DELAYED_AUTH == {1}

SSL_FLAG_DONT_VERIFY_PEER == {2}

SSL_FLAG_DONT_VERIFY_DOMAIN == {3}

SSL_FLAG_NO_SESSION_REUSE == {4}

SSL_FLAG_VERIFY_CRL == {5}

SSL_FLAG_VERIFY_CRL_ALL == {6}

\* the static label -> mask table of parseFlags(), with its zero terminator
flagTokens == <<
    [label |-> "NO_DEFAULT_CA", mask |-> SSL_FLAG_NO_DEFAULT_CA],
    [label |-> "DELAYED_AUTH", mask |-> SSL_FLAG_DELAYED_AUTH],
    [label |-> "DONT_VERIFY_PEER", mask |-> SSL_FLAG_DONT_VERIFY_PEER],
    [label |-> "DONT_VERIFY_DOMAIN", mask |-> SSL_FLAG_DONT_VERIFY_DOMAIN],
    [label |-> "NO_SESSION_REUSE", mask |-> SSL_FLAG_NO_SESSION_REUSE],
    [label |-> "VERIFY_CRL", mask |-> SSL_FLAG_VERIFY_CRL],
    [label |-> "VERIFY_CRL_ALL", mask |-> SSL_FLAG_VERIFY_CRL_ALL],
    [label |-> "", mask |-> {}] >>

(***************************************************************************)
(* parseOptions()                                                          *)
(***************************************************************************)
\* CharacterSet("TLS-option", "_") + ALPHA + DIGIT
optChars == {"_"} \cup CharsOf(UPPER) \cup CharsOf(LOWER) \cup CharsOf(DIGIT)

\* CharacterSet("TLS-option-delim", ":,") and ("Flag-delimiter", ":,")
delims == {":", ","}

\* the table scan: the value of the first entry named option, else zero
RECURSIVE LookupOption(_, _)
LookupOption(option, i) ==
    IF i > Len(ssl_options) THEN {}
    ELSE IF option = ssl_options[i].name THEN ssl_options[i].value
    ELSE LookupOption(option, i + 1)

\* the operator of a term: tok.skip('-') || tok.skip('!'), else tok.skip('+')
TermMode(buf) ==
    IF skip(buf, "-").ok THEN [remove |-> TRUE, rest |-> skip(buf, "-").rest]
    ELSE IF skip(buf, "!").ok THEN [remove |-> TRUE, rest |-> skip(buf, "!").rest]
    ELSE [remove |-> FALSE, rest |-> skip(buf, "+").rest]

\* the value of a term body: a hex number, else a name of the table, else zero
TermValue(hex, word) ==
    IF hex.ok THEN BitsOf(hex.value)
    ELSE IF word.ok THEN LookupOption(word.token, 1)
    ELSE {}

\* what is left of the text after the term body
TermRest(body, hex, word) ==
    IF hex.ok THEN hex.rest ELSE IF word.ok THEN word.rest ELSE body

\* the switch on mode with the MODE_REMOVE case falling into MODE_ADD
ApplyTerm_RemoveAdds(remove, op, value) == op \cup value

\* if (value) switch (mode): MODE_ADD ORs, MODE_REMOVE ANDs the complement
ApplyTerm(remove, op, value) ==
    IF value = {} THEN op
    ELSE IF remove THEN op \ value
    ELSE op \cup value

\* the end of a term: fatal when what follows is neither a delimiter nor the
\* end of the text
TermEnd(newOp, after, sep) ==
    [op |-> newOp, rest |-> sep.rest, fatal |-> ~sep.ok /\ ~atEnd(after)]

TermAfter(newOp, after) == TermEnd(newOp, after, skipAll(after, delims))

TermBody(remove, body, hex, word, op) ==
    TermAfter(ApplyTerm(remove, op, TermValue(hex, word)),
              TermRest(body, hex, word))

TermOf(mode, op) ==
    TermBody(mode.remove, mode.rest, int64(mode.rest, 16, npos),
             prefix(mode.rest, optChars), op)

\* one iteration of the do-while of parseOptions(): the term at the head of
\* buf applied to op
OptionTerm(buf, op) == TermOf(TermMode(buf), op)

RECURSIVE OptionTerms(_, _)
\* while (!tok.atEnd())
OptionTermsAfter(t) ==
    IF t.fatal THEN [fatal |-> TRUE, op |-> t.op]
    ELSE IF ~atEnd(t.rest) THEN OptionTerms(t.rest, t.op)
    ELSE [fatal |-> FALSE, op |-> t.op]

OptionTerms(buf, op) == OptionTermsAfter(OptionTerm(buf, op))

\* the forced SSL_OP_NO_SSLv2 after the loop
WithFloor(r) == [fatal |-> r.fatal, op |-> r.op \cup SSL_OP_NO_SSLv2]

\* long PeerOptions::parseOptions(), reading sslOptions
parseOptions(sslOptions) == WithFloor(OptionTerms(sslOptions, {}))

(***************************************************************************)
(* parseFlags()                                                            *)
(***************************************************************************)
\* the for loop over flagTokens: an entry is taken as found when
\* tok.skip(label) == 0, and skip() consumes the label when it returns true
RECURSIVE FindFlag(_, _)
FindFlagAt(r, i) ==
    IF r.ok = FALSE
    THEN [found |-> flagTokens[i].mask, rest |-> r.rest]
    ELSE FindFlag(r.rest, i + 1)

FindFlag(buf, i) ==
    IF flagTokens[i].mask = {} THEN [found |-> {}, rest |-> buf]
    ELSE FindFlagAt(skip(buf, flagTokens[i].label), i)

RECURSIVE FlagTerms(_, _, _)
\* while (tok.skipOne(delims))
FlagTermsAfter(sep, fl, tlsDefaultCa) ==
    IF sep.ok THEN FlagTerms(sep.rest, fl, tlsDefaultCa)
    ELSE [fatal |-> FALSE, fl |-> fl, tlsDefaultCa |-> tlsDefaultCa]

\* the body of the do-while once the table has been scanned
FlagFound(f, fl, tlsDefaultCa) ==
    IF f.found = {}
    THEN [fatal |-> TRUE, fl |-> fl, tlsDefaultCa |-> tlsDefaultCa]
    ELSE IF f.found = SSL_FLAG_NO_DEFAULT_CA
    THEN FlagTermsAfter(skipOne(f.rest, delims), fl, FALSE)
    ELSE FlagTermsAfter(skipOne(f.rest, delims), fl \cup f.found, tlsDefaultCa)

FlagTerms(buf, fl, tlsDefaultCa) == FlagFound(FindFlag(buf, 1), fl, tlsDefaultCa)

\* long PeerOptions::parseFlags(), reading sslFlags and writing
\* flags.tlsDefaultCa
parseFlags(sslFlags, tlsDefaultCa) ==
    IF sslFlags = ""
    THEN [fatal |-> FALSE, fl |-> {}, tlsDefaultCa |-> tlsDefaultCa]
    ELSE FlagTerms(sslFlags, {}, tlsDefaultCa)

(***************************************************************************)
(* The configuration entity                                                *)
(***************************************************************************)
\* PeerOptions(): the default-constructed entity
PeerOptions ==
    [sslOptions |-> "", caDir |-> "", crlFile |-> "", sslCipher |-> "",
     sslFlags |-> "", sslDomain |-> "", tlsMinVersion |-> "",
     parsedOptions |-> {}, parsedFlags |-> {},
     certs |-> << >>, caFiles |-> << >>, parsedCrl |-> << >>,
     sslVersion |-> 0, encryptTransport |-> FALSE,
     flags |-> [tlsDefaultCa |-> TRUE, tlsNpn |-> TRUE]]

\* clear(): *this = PeerOptions()
clear(p) == PeerOptions

\* PeerOptions(const PeerOptions &p): the members the initializer list and
\* the memcpy() of flags copy from p; tlsMinVersion is not among them and is
\* default-constructed
CopyOf(p) ==
    [sslOptions |-> p.sslOptions,
     caDir |-> p.caDir,
     crlFile |-> p.crlFile,
     sslCipher |-> p.sslCipher,
     sslFlags |-> p.sslFlags,
     sslDomain |-> p.sslDomain,
     tlsMinVersion |-> PeerOptions.tlsMinVersion,
     parsedOptions |-> p.parsedOptions,
     parsedFlags |-> p.parsedFlags,
     certs |-> p.certs,
     caFiles |-> p.caFiles,
     parsedCrl |-> p.parsedCrl,
     sslVersion |-> p.sslVersion,
     encryptTransport |-> p.encryptTransport,
     flags |-> p.flags]

\* the files crlfile= can name: the number of concatenated CRL records
\* PEM_read_bio_X509_CRL() reads from each file that opens before it returns
\* NULL; a path that is not listed does not open
CrlRecords == [f \in {"/crl3", "/crl1", "/crl0"} |->
                  CASE f = "/crl3" -> 3 [] f = "/crl1" -> 1 [] OTHER -> 0]

\* loadCrlFile() reading with an if in place of the while
loadCrlFile_FirstRecord(crlFile) ==
    IF crlFile = "" THEN << >>
    ELSE IF crlFile \notin DOMAIN CrlRecords THEN << >>
    ELSE IF CrlRecords[crlFile] = 0 THEN << >>
    ELSE << [file |-> crlFile, record |-> 1] >>

\* loadCrlFile(): parsedCrl after loading crlFile
loadCrlFile(crlFile) ==
    IF crlFile = "" THEN << >>
    ELSE IF crlFile \notin DOMAIN CrlRecords THEN << >>
    ELSE [i \in 1..CrlRecords[crlFile] |-> [file |-> crlFile, record |-> i]]

\* the text the legacy version= translation appends for sslVersion
LegacyAdd(sslVersion) ==
    CASE sslVersion = 3 -> "NO_TLSv1,NO_TLSv1_1,NO_TLSv1_2"
      [] sslVersion = 4 -> "NO_SSLv3,NO_TLSv1_1,NO_TLSv1_2"
      [] sslVersion = 5 -> "NO_SSLv3,NO_TLSv1,NO_TLSv1_2"
      [] sslVersion = 6 -> "NO_SSLv3,NO_TLSv1,NO_TLSv1_1"
      [] OTHER -> ""

\* the bits the min-version branch ORs into parsedOptions for minor version v
MinVersionBits(v) ==
    (IF v > 0 THEN SSL_OP_NO_TLSv1 ELSE {}) \cup
    (IF v > 1 THEN SSL_OP_NO_TLSv1_1 ELSE {}) \cup
    (IF v > 2 THEN SSL_OP_NO_TLSv1_2 ELSE {})

\* tok.skip('1') && tok.skip('.') && tok.int64(v, 10, false, 1)
MinorAfterDot(dot) == IF dot.ok THEN int64(dot.rest, 10, 1) ELSE NoInt64(dot.rest)

MinorAfterOne(one) ==
    IF one.ok THEN MinorAfterDot(skip(one.rest, ".")) ELSE NoInt64(one.rest)

TlsMinor(tlsMinVersion) == MinorAfterOne(skip(tlsMinVersion, "1"))

\* the legacy branch: sslOptions with add appended
AppendOptions(sslOptions, add) ==
    IF add = "" THEN sslOptions
    ELSE IF sslOptions # "" THEN sslOptions \o "," \o add
    ELSE add

\* the min-version branch with the legacy branch run after it (an if in
\* place of the else if)
ApplyMinVersion_AndLegacy(p, v) ==
    [p EXCEPT
       !.parsedOptions =
           IF v.ok /\ v.value <= 3 THEN @ \cup MinVersionBits(v.value) ELSE @,
       !.sslOptions =
           IF p.sslVersion > 2 THEN AppendOptions(@, LegacyAdd(p.sslVersion))
           ELSE @,
       !.sslVersion = IF p.sslVersion > 2 THEN 0 ELSE @]

\* the min-version branch, v being the parsed minor version
ApplyMinVersion(p, v) ==
    IF v.ok /\ v.value <= 3
    THEN [p EXCEPT !.parsedOptions = @ \cup MinVersionBits(v.value)]
    ELSE p

\* updateTlsVersionLimits() without the final sslVersion = 0
updateTlsVersionLimits_NoDisarm(p) ==
    IF p.tlsMinVersion # "" THEN ApplyMinVersion(p, TlsMinor(p.tlsMinVersion))
    ELSE IF p.sslVersion > 2 THEN
        [p EXCEPT !.sslOptions = AppendOptions(@, LegacyAdd(p.sslVersion))]
    ELSE p

\* void PeerOptions::updateTlsVersionLimits()
updateTlsVersionLimits(p) ==
    IF p.tlsMinVersion # "" THEN ApplyMinVersion(p, TlsMinor(p.tlsMinVersion))
    ELSE IF p.sslVersion > 2 THEN
        [p EXCEPT !.sslOptions = AppendOptions(@, LegacyAdd(p.sslVersion)),
                  !.sslVersion = 0]
    ELSE p

(***************************************************************************)
(* parse(): one directive token applied to the entity p.  The result is    *)
(* the entity and whether the process ended in fatal().                    *)
(***************************************************************************)
Done(p) == [o |-> p, fatal |-> FALSE]

Fatal(p) == [o |-> p, fatal |-> TRUE]

Applied(p) == Done([p EXCEPT !.encryptTransport = TRUE])

\* the "disable" branch without its return: falls to encryptTransport = true
parseDisable_FallsThrough(p) == Applied(clear(p))

\* the "disable" branch: clear() and return
parseDisable(p) == Done(clear(p))

\* the "cert=" branch
parseCert(p, path) ==
    Applied([p EXCEPT !.certs =
                 Append(@, [certFile |-> path, privateKeyFile |-> path])])

\* the "key=" branch without the certFile.isEmpty() test
parseKey_Unguarded(p, path) ==
    IF p.certs = << >>
    THEN Done(p)
    ELSE Applied([p EXCEPT !.certs[Len(p.certs)].privateKeyFile = path])

\* the "key=" branch
parseKey(p, path) ==
    IF p.certs = << >> \/ p.certs[Len(p.certs)].certFile = ""
    THEN Done(p)
    ELSE Applied([p EXCEPT !.certs[Len(p.certs)].privateKeyFile = path])

\* the final else branch without its return
parseUnknown_Enables(p) == Applied(p)

\* the final else branch: an unknown token is logged and parse() returns
parseUnknown(p) == Done(p)

\* the "version=" branch, n being what xatoi() made of the value
parseVersion(p, n) ==
    IF n.fatal THEN Fatal(p) ELSE Applied([p EXCEPT !.sslVersion = n.value])

\* parsedOptions = parseOptions(), r being what parseOptions() returns for
\* the sslOptions just stored in q
setParsedOptions(q, r) ==
    IF r.fatal THEN Fatal(q) ELSE Applied([q EXCEPT !.parsedOptions = r.op])

\* parsedFlags = parseFlags(), r being what parseFlags() returns for the
\* sslFlags just stored in q
setParsedFlags(q, r) ==
    IF r.fatal THEN Fatal(q)
    ELSE Applied([q EXCEPT !.flags.tlsDefaultCa = r.tlsDefaultCa,
                           !.parsedFlags = r.fl])

parse(p, token) ==
    IF token = "" THEN Applied(p)
    ELSE IF StartsWith(token, "disable") THEN parseDisable(p)
    ELSE IF StartsWith(token, "cert=") THEN parseCert(p, DropFirst(token, 5))
    ELSE IF StartsWith(token, "key=") THEN parseKey(p, DropFirst(token, 4))
    ELSE IF StartsWith(token, "version=") THEN
        parseVersion(p, xatoi(DropFirst(token, 8)))
    ELSE IF StartsWith(token, "min-version=") THEN
        Applied([p EXCEPT !.tlsMinVersion = DropFirst(token, 12)])
    ELSE IF StartsWith(token, "options=") THEN
        setParsedOptions([p EXCEPT !.sslOptions = DropFirst(token, 8)],
                         parseOptions(DropFirst(token, 8)))
    ELSE IF StartsWith(token, "cipher=") THEN
        Applied([p EXCEPT !.sslCipher = DropFirst(token, 7)])
    ELSE IF StartsWith(token, "cafile=") THEN
        Applied([p EXCEPT !.caFiles = Append(@, DropFirst(token, 7))])
    ELSE IF StartsWith(token, "capath=") THEN
        Applied([p EXCEPT !.caDir = DropFirst(token, 7)])
    ELSE IF StartsWith(token, "crlfile=") THEN
        Applied([p EXCEPT !.crlFile = DropFirst(token, 8),
                          !.parsedCrl = loadCrlFile(DropFirst(token, 8))])
    ELSE IF StartsWith(token, "flags=") THEN
        setParsedFlags([p EXCEPT !.sslFlags = DropFirst(token, 6)],
                       parseFlags(DropFirst(token, 6), p.flags.tlsDefaultCa))
    ELSE IF StartsWith(token, "no-default-ca") THEN
        Applied([p EXCEPT !.flags.tlsDefaultCa = FALSE])
    ELSE IF StartsWith(token, "domain=") THEN
        Applied([p EXCEPT !.sslDomain = DropFirst(token, 7)])
    ELSE IF StartsWith(token, "no-npn") THEN
        Applied([p EXCEPT !.flags.tlsNpn = FALSE])
    ELSE parseUnknown(p)

(***************************************************************************)
(* dumpCfg(): the tokens appended to the Packable, in order                *)
(***************************************************************************)
\* one iteration of the certs loop of dumpCfg() without the key= line
DumpCert_NoKey(i, pfx) ==
    IF i.certFile # "" THEN << pfx \o "cert=" \o i.certFile >> ELSE << >>

\* one iteration of the certs loop of dumpCfg()
DumpCert(i, pfx) ==
    (IF i.certFile # "" THEN << pfx \o "cert=" \o i.certFile >> ELSE << >>)
    \o (IF i.privateKeyFile # "" /\ i.privateKeyFile # i.certFile
        THEN << pfx \o "key=" \o i.privateKeyFile >> ELSE << >>)

\* the certs loop of dumpCfg() without the key= line
RECURSIVE DumpCerts_NoKey(_, _)
DumpCerts_NoKey(certs, pfx) ==
    IF certs = << >> THEN << >>
    ELSE DumpCert_NoKey(Head(certs), pfx) \o DumpCerts_NoKey(Tail(certs), pfx)

\* the certs loop of dumpCfg()
RECURSIVE DumpCerts(_, _)
DumpCerts(certs, pfx) ==
    IF certs = << >> THEN << >>
    ELSE DumpCert(Head(certs), pfx) \o DumpCerts(Tail(certs), pfx)

dumpCfg(p, pfx) ==
    IF ~p.encryptTransport THEN << pfx \o "disable" >>
    ELSE DumpCerts(p.certs, pfx)
         \o (IF p.sslOptions # "" THEN << pfx \o "options=" \o p.sslOptions >>
             ELSE << >>)
         \o (IF p.sslCipher # "" THEN << pfx \o "cipher=" \o p.sslCipher >>
             ELSE << >>)
         \o [i \in 1..Len(p.caFiles) |-> pfx \o "cafile=" \o p.caFiles[i]]
         \o (IF p.caDir # "" THEN << pfx \o "capath=" \o p.caDir >> ELSE << >>)
         \o (IF p.crlFile # "" THEN << pfx \o "crlfile=" \o p.crlFile >>
             ELSE << >>)
         \o (IF p.sslFlags # "" THEN << pfx \o "flags=" \o p.sslFlags >>
             ELSE << >>)
         \o (IF ~p.flags.tlsDefaultCa THEN << pfx \o "no-default-ca" >>
             ELSE << >>)
         \o (IF ~p.flags.tlsNpn THEN << pfx \o "no-npn" >> ELSE << >>)

(***************************************************************************)
(* The state machine: directives are parsed into one entity, and contexts  *)
(* are built from it.                                                      *)
(***************************************************************************)
\* the build configurations: USE_OPENSSL; USE_GNUTLS with and without
\* WHEN_READY_FOR_GNUTLS; neither library
BuildConfigurations == {"openssl", "gnutls-ready", "gnutls", "none"}

\* Security::ContextPtr t = nullptr
NoContext ==
    [allocated |-> FALSE, options |-> {}, flags |-> {}, npn |-> FALSE,
     trust |-> << >>, crl |-> << >>, crlCheck |-> {}]

\* a context as the TLS library hands it out
BlankContext == [NoContext EXCEPT !.allocated = TRUE]

\* what the TLS library answers during one build of a context from p:
\* whether it allocates a context, which caFiles entries and parsedCrl
\* entries it refuses, whether it refuses the system trust store
Outcomes(p) ==
    [alloc : BOOLEAN, caFail : SUBSET (1..Len(p.caFiles)),
     sysFail : BOOLEAN, crlFail : SUBSET (1..Len(p.parsedCrl))]

\* createBlankContext(): the context, or fatal()
createBlankContext(b, alloc) ==
    IF b = "none" THEN [t |-> NoContext, fatal |-> TRUE]
    ELSE IF alloc THEN [t |-> BlankContext, fatal |-> FALSE]
    ELSE [t |-> NoContext, fatal |-> TRUE]

\* sslCreateClientContext(peer, options, flags): a blank context with the
\* options and flags applied
sslCreateClientContext(blank, options, fl) ==
    IF blank.fatal THEN blank
    ELSE [blank EXCEPT !.t.options = options, !.t.flags = fl]

\* the #if chain of createClientContext() that makes t
MakeContext(b, q, setOptions, alloc) ==
    IF b = "openssl" THEN
        sslCreateClientContext(createBlankContext(b, alloc),
                               IF setOptions THEN q.parsedOptions ELSE {},
                               q.parsedFlags)
    ELSE IF b = "gnutls-ready" THEN createBlankContext(b, alloc)
    ELSE [t |-> NoContext, fatal |-> FALSE]

\* updateContextNpn()
updateContextNpn(b, p, c) ==
    IF ~p.flags.tlsNpn THEN c
    ELSE IF b = "openssl" THEN [c EXCEPT !.npn = TRUE]
    ELSE c

\* the call updateContextCa() makes for caFiles[i]
LoadCaFile(b, p, i, ok) ==
    IF b = "openssl"
    THEN [call |-> "SSL_CTX_load_verify_locations", file |-> p.caFiles[i],
          dir |-> p.caDir, ok |-> ok]
    ELSE [call |-> "gnutls_certificate_set_x509_trust_file",
          file |-> p.caFiles[i], dir |-> "", ok |-> ok]

\* the call updateContextCa() makes for the system trust store
LoadDefaultCa(b, ok) ==
    [call |-> IF b = "openssl" THEN "SSL_CTX_set_default_verify_paths"
              ELSE "gnutls_certificate_set_x509_system_trust",
     file |-> "", dir |-> "", ok |-> ok]

\* updateContextCa()
updateContextCa(b, p, c, env) ==
    [c EXCEPT !.trust =
        [i \in 1..Len(p.caFiles) |-> LoadCaFile(b, p, i, i \notin env.caFail)]
        \o (IF ~p.flags.tlsDefaultCa THEN << >>
            ELSE << LoadDefaultCa(b, ~env.sysFail) >>)]

\* X509_V_FLAG_CRL_CHECK and X509_V_FLAG_CRL_CHECK_ALL
X509_V_FLAG_CRL_CHECK == {2}

X509_V_FLAG_CRL_CHECK_ALL == {3}

\* the flags of updateContextCrl() with its two tests in the other order
CrlCheckFlags_LeafFirst(parsedFlags, verifyCrl) ==
    IF verifyCrl \/ parsedFlags \cap SSL_FLAG_VERIFY_CRL # {}
    THEN X509_V_FLAG_CRL_CHECK
    ELSE IF parsedFlags \cap SSL_FLAG_VERIFY_CRL_ALL # {}
    THEN X509_V_FLAG_CRL_CHECK \cup X509_V_FLAG_CRL_CHECK_ALL
    ELSE {}

\* the flags updateContextCrl() sets on the store
CrlCheckFlags(parsedFlags, verifyCrl) ==
    IF parsedFlags \cap SSL_FLAG_VERIFY_CRL_ALL # {}
    THEN X509_V_FLAG_CRL_CHECK \cup X509_V_FLAG_CRL_CHECK_ALL
    ELSE IF verifyCrl \/ parsedFlags \cap SSL_FLAG_VERIFY_CRL # {}
    THEN X509_V_FLAG_CRL_CHECK
    ELSE {}

\* updateContextCrl()
updateContextCrl(b, p, c, env) ==
    IF b # "openssl" THEN c
    ELSE [c EXCEPT
            !.crl = [i \in 1..Len(p.parsedCrl) |->
                        [crl |-> p.parsedCrl[i], ok |-> i \notin env.crlFail]],
            !.crlCheck =
                CrlCheckFlags(p.parsedFlags,
                              \E i \in 1..Len(p.parsedCrl) : i \notin env.crlFail)]

\* if (t) { updateContextNpn(t); updateContextCa(t); updateContextCrl(t); }
Configured(b, q, made, env) ==
    IF ~made.t.allocated THEN made
    ELSE [made EXCEPT !.t =
            updateContextCrl(b, q,
                updateContextCa(b, q, updateContextNpn(b, q, made.t), env), env)]

\* createClientContext(setOptions) on the entity p: the entity it leaves,
\* the context it returns, and whether it ended in fatal() instead
Created(q, made) == [o |-> q, t |-> made.t, fatal |-> made.fatal]

createClientContextFrom(b, q, setOptions, env) ==
    Created(q, Configured(b, q, MakeContext(b, q, setOptions, env.alloc), env))

createClientContext(b, p, setOptions, env) ==
    createClientContextFrom(b, updateTlsVersionLimits(p), setOptions, env)

\* the connection-setup call sites that build contexts at the same time
MaxCallers == 2

Callers == 1..MaxCallers

NotCalling == [pc |-> "idle", add |-> ""]

Init ==
    /\ build = "openssl"
    /\ opts = PeerOptions
    /\ aborted = FALSE
    /\ ctx = NoContext
    /\ hist = << >>
    /\ calls = [t \in Callers |-> NotCalling]

\* the same program compiled in any of the build configurations
InitBuilds ==
    /\ build \in BuildConfigurations
    /\ opts = PeerOptions
    /\ aborted = FALSE
    /\ ctx = NoContext
    /\ hist = << >>
    /\ calls = [t \in Callers |-> NotCalling]

Op(name, token) == [op |-> name, token |-> token, before |-> opts]

\* parse() returns r: the entity it leaves, and whether it ended in fatal()
Returns(r) == opts' = r.o /\ aborted' = r.fatal

\* createClientContext() ends as r: the entity it leaves, and the context
\* it returns unless it ended in fatal()
Builds(r) ==
    /\ opts' = r.o
    /\ aborted' = r.fatal
    /\ ctx' = IF r.fatal THEN ctx ELSE r.t

\* parse_securePeerOptions() hands the next token to parse()
Parse(token) ==
    /\ ~aborted
    /\ Returns(parse(opts, token))
    /\ hist' = Append(hist, Op("parse", token))
    /\ UNCHANGED <<build, ctx, calls>>

UpdateTlsVersionLimits ==
    /\ ~aborted
    /\ opts' = updateTlsVersionLimits(opts)
    /\ hist' = Append(hist, Op("updateTlsVersionLimits", ""))
    /\ UNCHANGED <<build, aborted, ctx, calls>>

\* a PeerOptions is copy-constructed from the entity and takes its place
CopyConstruct ==
    /\ ~aborted
    /\ opts' = CopyOf(opts)
    /\ hist' = Append(hist, Op("copy", ""))
    /\ UNCHANGED <<build, aborted, ctx, calls>>

\* createClientContext(setOptions), the TLS library answering as env
CreateClientContext(setOptions, env) ==
    /\ ~aborted
    /\ Builds(createClientContext(build, opts, setOptions, env))
    /\ hist' = Append(hist, Op("createClientContext", ""))
    /\ UNCHANGED <<build, calls>>

(***************************************************************************)
(* createClientContext() called from several call sites at once: the call  *)
(* of each site advances statement by statement, the statements of the     *)
(* sites interleave.                                                       *)
(***************************************************************************)
At(t, pc) == ~aborted /\ calls[t].pc = pc

Goto(t, pc) == calls' = [calls EXCEPT ![t].pc = pc]

\* the call begins
EnterCreateClientContext(t) ==
    /\ At(t, "idle")
    /\ Goto(t, "test")
    /\ hist' = Append(hist, Op("createClientContext", ""))
    /\ UNCHANGED <<build, opts, aborted, ctx>>

\* if (!tlsMinVersion.isEmpty()) { ... } else if (sslVersion > 2)
TestLimits(t) ==
    /\ At(t, "test")
    /\ IF opts.tlsMinVersion # ""
       THEN /\ opts' = ApplyMinVersion(opts, TlsMinor(opts.tlsMinVersion))
            /\ Goto(t, "make")
       ELSE /\ opts' = opts
            /\ Goto(t, IF opts.sslVersion > 2 THEN "switch" ELSE "make")
    /\ UNCHANGED <<build, aborted, ctx, hist>>

\* switch (sslVersion) chooses add
SwitchVersion(t) ==
    /\ At(t, "switch")
    /\ calls' = [calls EXCEPT ![t] =
                    [pc |-> "append", add |-> LegacyAdd(opts.sslVersion)]]
    /\ UNCHANGED <<build, opts, aborted, ctx, hist>>

\* if (add) { ... sslOptions.append(add, strlen(add)); }
AppendLegacy(t) ==
    /\ At(t, "append")
    /\ opts' = [opts EXCEPT !.sslOptions = AppendOptions(@, calls[t].add)]
    /\ Goto(t, "zero")
    /\ UNCHANGED <<build, aborted, ctx, hist>>

\* sslVersion = 0
ZeroVersion(t) ==
    /\ At(t, "zero")
    /\ opts' = [opts EXCEPT !.sslVersion = 0]
    /\ Goto(t, "make")
    /\ UNCHANGED <<build, aborted, ctx, hist>>

\* the rest of createClientContext(): the context is made and returned
ReturnContext(t, setOptions, env) ==
    /\ At(t, "make")
    /\ Builds(createClientContextFrom(build, opts, setOptions, env))
    /\ calls' = [calls EXCEPT ![t] = [pc |-> "returned", add |-> ""]]
    /\ UNCHANGED <<build, hist>>

(***************************************************************************)
(* Bounds and the directive alphabets of the specifications                *)
(***************************************************************************)
MaxSteps == 4

MaxOptionSteps == 4

MaxMinVersionSteps == 3

MaxFlagSteps == 3

MaxCertSteps == 4

MaxDirectiveSteps == 3

MaxDumpSteps == 3

MaxBuildSteps == 3

MaxCrlSteps == 3

MaxRevocationSteps == 3

MaxFoldSteps == 3

MaxNameSteps == 2

MaxLoadSteps == 2

MaxCopySteps == 3

Tokens ==
    {"options=NO_SSLv3", "version=3", "version=4", "version=5", "version=6",
     "version=7", "min-version=1.2", "min-version="}

OptionTokens ==
    {"options=NO_TLSv1,NO_TLSv1_1", "options=+NO_TLSv1_2", "options=-NO_TLSv1",
     "options=NO_TLSv1,NO_TLSv1_1,+NO_TLSv1_2,-NO_TLSv1", "options=0x4",
     "options=NO_SSLv3:!NO_SSLv3,BOGUS", "options=NO_TICKET;"}

MinVersionTokens ==
    {"min-version=1.0", "min-version=1.1", "min-version=1.2", "min-version=1.3",
     "min-version=1.9", "min-version=1.12", "min-version=2.0", "min-version=1.",
     "options=NO_SSLv3", "version=4"}

FlagTokens ==
    {"flags=DONT_VERIFY_PEER:NO_SESSION_REUSE", "flags=NO_DEFAULT_CA",
     "flags=NO_DEFAULT_CA,VERIFY_CRL", "flags=DELAYED_AUTH", "flags=BOGUS",
     "flags=DONT_VERIFY_PEER,BOGUS", "flags=", "no-default-ca", "disable"}

CertTokens ==
    {"cert=/a.pem", "cert=/b.pem", "cert=", "key=/a.key", "key=/x.key", "key=",
     "disable"}

DirectiveTokens ==
    {"", "disable", "cert=/a.pem", "key=/a.key", "version=4", "min-version=1.1",
     "options=NO_TLSv1", "cipher=HIGH", "cafile=/ca.pem", "capath=/etc/ssl",
     "crlfile=/crl3", "flags=DELAYED_AUTH", "no-default-ca", "domain=example",
     "no-npn", "bogus=1", "certificate", "sslkey=/a.key", "Disable"}

DumpTokens ==
    {"", "disable", "cert=/a.pem", "cert=/b.pem", "key=/a.key", "key=/a.pem",
     "options=NO_TLSv1", "cipher=HIGH", "cafile=/ca.pem", "cafile=",
     "capath=/etc/ssl", "crlfile=/crl3", "flags=NO_DEFAULT_CA", "no-default-ca",
     "no-npn", "cert=", "key="}

\* directives that parse() handles alike in every build configuration
BuildTokens ==
    {"", "cafile=/ca.pem", "capath=/etc/ssl", "no-default-ca", "no-npn",
     "disable"}

CrlTokens ==
    {"crlfile=/crl3", "crlfile=/crl1", "crlfile=/crl0", "crlfile=/missing",
     "crlfile=", "cafile=/ca.pem", "disable"}

\* parseFlags() resolves the two long flags= texts to the VERIFY_CRL and the
\* VERIFY_CRL_ALL bit
RevocationTokens ==
    {"crlfile=/crl3", "crlfile=/crl1", "crlfile=/missing", "flags=VERIFY_CRL",
     "flags=NO_DEFAULT_CADELAYED_AUTHDONT_VERIFY_PEERDONT_VERIFY_DOMAIN"
         \o "NO_SESSION_REUSE",
     "flags=NO_DEFAULT_CADELAYED_AUTHDONT_VERIFY_PEERDONT_VERIFY_DOMAIN"
         \o "NO_SESSION_REUSEVERIFY_CRL"}

FoldTokens ==
    {"options=NO_TLSv1,NO_TLSv1_1", "options=NO_SSLv3:!NO_SSLv3,NO_TICKET",
     "options=-NO_SSLv2", "options=0x4,+NO_TLSv1_2,-0x4",
     "options=NOTHING,NO_TLSv1", "options=BOGUS,NO_TLSv1", "options=",
     "cipher=HIGH"}

\* the names of the ssl_options table
OptionNames == { ssl_options[i].name : i \in 1..(Len(ssl_options) - 1) }

NameTokens == { "options=" \o name : name \in OptionNames } \cup {"options=0x4"}

LoadTokens ==
    {"version=3", "version=4", "version=5", "version=6", "version=2",
     "options=NO_SSLv3", "min-version=1.1"}

CopyTokens ==
    {"min-version=1.2", "min-version=1.0", "min-version=", "version=4",
     "version=2", "options=NO_SSLv3", "cafile=/ca.pem", "no-npn", "disable"}

Next ==
    \/ \E token \in Tokens : Len(hist) < MaxSteps /\ Parse(token)
    \/ Len(hist) < MaxSteps /\ UpdateTlsVersionLimits
    \/ \E setOptions \in BOOLEAN, env \in Outcomes(opts) :
          Len(hist) < MaxSteps /\ CreateClientContext(setOptions, env)

Spec == Init /\ [][Next]_vars

NextMinVersion ==
    \/ \E token \in MinVersionTokens :
          Len(hist) < MaxMinVersionSteps /\ Parse(token)
    \/ Len(hist) < MaxMinVersionSteps /\ UpdateTlsVersionLimits
    \/ \E setOptions \in BOOLEAN, env \in Outcomes(opts) :
          Len(hist) < MaxMinVersionSteps /\ CreateClientContext(setOptions, env)

SpecMinVersion == Init /\ [][NextMinVersion]_vars

NextOptions == \E token \in OptionTokens :
                  Len(hist) < MaxOptionSteps /\ Parse(token)

SpecOptions == Init /\ [][NextOptions]_vars

NextFlags == \E token \in FlagTokens : Len(hist) < MaxFlagSteps /\ Parse(token)

SpecFlags == Init /\ [][NextFlags]_vars

NextCerts == \E token \in CertTokens : Len(hist) < MaxCertSteps /\ Parse(token)

SpecCerts == Init /\ [][NextCerts]_vars

NextDirectives == \E token \in DirectiveTokens :
                     Len(hist) < MaxDirectiveSteps /\ Parse(token)

SpecDirectives == Init /\ [][NextDirectives]_vars

NextDump == \E token \in DumpTokens : Len(hist) < MaxDumpSteps /\ Parse(token)

SpecDump == Init /\ [][NextDump]_vars

NextBuilds ==
    \/ \E token \in BuildTokens : Len(hist) < MaxBuildSteps /\ Parse(token)
    \/ \E setOptions \in BOOLEAN, env \in Outcomes(opts) :
          Len(hist) < MaxBuildSteps /\ CreateClientContext(setOptions, env)

SpecBuilds == InitBuilds /\ [][NextBuilds]_vars

NextCrl == \E token \in CrlTokens : Len(hist) < MaxCrlSteps /\ Parse(token)

SpecCrl == Init /\ [][NextCrl]_vars

NextRevocation ==
    \/ \E token \in RevocationTokens :
          Len(hist) < MaxRevocationSteps /\ Parse(token)
    \/ \E setOptions \in BOOLEAN, env \in Outcomes(opts) :
          Len(hist) < MaxRevocationSteps /\ CreateClientContext(setOptions, env)

SpecRevocation == Init /\ [][NextRevocation]_vars

NextFold == \E token \in FoldTokens : Len(hist) < MaxFoldSteps /\ Parse(token)

SpecFold == Init /\ [][NextFold]_vars

NextNames == \E token \in NameTokens : Len(hist) < MaxNameSteps /\ Parse(token)

SpecNames == Init /\ [][NextNames]_vars

\* the directives are parsed before the first call site asks for a context
Loading == \A t \in Callers : calls[t].pc = "idle"

NextConcurrent ==
    \/ \E token \in LoadTokens :
          Loading /\ Len(hist) < MaxLoadSteps /\ Parse(token)
    \/ \E t \in Callers : EnterCreateClientContext(t)
    \/ \E t \in Callers : TestLimits(t)
    \/ \E t \in Callers : SwitchVersion(t)
    \/ \E t \in Callers : AppendLegacy(t)
    \/ \E t \in Callers : ZeroVersion(t)
    \/ \E t \in Callers, setOptions \in BOOLEAN, env \in Outcomes(opts) :
          ReturnContext(t, setOptions, env)

SpecConcurrent == Init /\ [][NextConcurrent]_vars

NextCopy ==
    \/ \E token \in CopyTokens : Len(hist) < MaxCopySteps /\ Parse(token)
    \/ Len(hist) < MaxCopySteps /\ CopyConstruct
    \/ Len(hist) < MaxCopySteps /\ UpdateTlsVersionLimits

SpecCopy == Init /\ [][NextCopy]_vars

(***************************************************************************)
(* Vocabulary of the properties                                            *)
(***************************************************************************)
Last == hist[Len(hist)]

\* the last operation parsed a token that starts with the directive prefix
LastParsed(directive) ==
    hist # << >> /\ Last.op = "parse" /\ StartsWith(Last.token, directive)

\* the last operations parsed exactly these tokens, in this order
ParsedInARow(tokens) ==
    /\ Len(hist) >= Len(tokens)
    /\ \A i \in 1..Len(tokens) :
          LET h == hist[Len(hist) - Len(tokens) + i]
          IN  h.op = "parse" /\ h.token = tokens[i]

\* the last operation ran updateTlsVersionLimits(), directly or at the start of
\* createClientContext()
LastReconciled ==
    hist # << >> /\ Last.op \in {"updateTlsVersionLimits", "createClientContext"}

\* text cut at every ':' and ',' into its sequence of words
RECURSIVE Words(_, _)
Words(text, word) ==
    IF text = "" THEN << word >>
    ELSE IF Head(text) \in {":", ","} THEN << word >> \o Words(Tail(text), "")
    ELSE Words(Tail(text), word \o Head(text))

Range(seq) == { seq[i] : i \in 1..Len(seq) }

FlagLabels == { flagTokens[i].label : i \in 1..(Len(flagTokens) - 1) }

MaskOfLabel(label) ==
    LET i == CHOOSE j \in 1..Len(flagTokens) : flagTokens[j].label = label
    IN  flagTokens[i].mask

(***************************************************************************)
(* C1: option bits accumulate across successive options= directives: after *)
(* options=NO_TLSv1,NO_TLSv1_1 then options=+NO_TLSv1_2 all three disable  *)
(* bits are set in parsedOptions, and after a further options=-NO_TLSv1    *)
(* exactly the NO_TLSv1 bit is cleared and the other two remain set.       *)
(***************************************************************************)
C1_OptionsAccumulate ==
    /\ ParsedInARow(<< "options=NO_TLSv1,NO_TLSv1_1", "options=+NO_TLSv1_2" >>)
         => /\ ~aborted
            /\ SSL_OP_NO_TLSv1 \cup SSL_OP_NO_TLSv1_1 \cup SSL_OP_NO_TLSv1_2
                  \subseteq opts.parsedOptions
    /\ ParsedInARow(<< "options=NO_TLSv1,NO_TLSv1_1", "options=+NO_TLSv1_2",
                       "options=-NO_TLSv1" >>)
         => /\ ~aborted
            /\ SSL_OP_NO_TLSv1_1 \cup SSL_OP_NO_TLSv1_2 \subseteq opts.parsedOptions
            /\ SSL_OP_NO_TLSv1 \cap opts.parsedOptions = {}

(***************************************************************************)
(* C1 as amended: every options= directive replaces parsedOptions by the   *)
(* resolution of its own text alone.  After options=NO_TLSv1,NO_TLSv1_1    *)
(* then options=+NO_TLSv1_2 parsedOptions is NO_TLSv1_2 plus the NO_SSLv2  *)
(* floor bit; after a further options=-NO_TLSv1 it is the floor bit alone. *)
(* Bits accumulate only over the terms of one text:                        *)
(* options=NO_TLSv1,NO_TLSv1_1,+NO_TLSv1_2,-NO_TLSv1 leaves NO_TLSv1_1 and *)
(* NO_TLSv1_2 (and the floor bit) set and NO_TLSv1 clear.                  *)
(***************************************************************************)
C1_OptionsReplace ==
    /\ ParsedInARow(<< "options=NO_TLSv1,NO_TLSv1_1" >>)
         => /\ ~aborted
            /\ opts.parsedOptions =
                  SSL_OP_NO_TLSv1 \cup SSL_OP_NO_TLSv1_1 \cup SSL_OP_NO_SSLv2
    /\ ParsedInARow(<< "options=NO_TLSv1,NO_TLSv1_1", "options=+NO_TLSv1_2" >>)
         => /\ ~aborted
            /\ opts.parsedOptions = SSL_OP_NO_TLSv1_2 \cup SSL_OP_NO_SSLv2
    /\ ParsedInARow(<< "options=NO_TLSv1,NO_TLSv1_1", "options=+NO_TLSv1_2",
                       "options=-NO_TLSv1" >>)
         => /\ ~aborted
            /\ opts.parsedOptions = SSL_OP_NO_SSLv2
    /\ ParsedInARow(<< "options=NO_TLSv1,NO_TLSv1_1,+NO_TLSv1_2,-NO_TLSv1" >>)
         => /\ ~aborted
            /\ opts.parsedOptions =
                  SSL_OP_NO_TLSv1_1 \cup SSL_OP_NO_TLSv1_2 \cup SSL_OP_NO_SSLv2

C1_Witness ==
    /\ ParsedInARow(<< "options=NO_TLSv1,NO_TLSv1_1", "options=+NO_TLSv1_2",
                       "options=-NO_TLSv1" >>)
    /\ ~aborted
    /\ opts.sslOptions = "-NO_TLSv1"

(***************************************************************************)
(* C2: for every non-empty flags= text made of labels of the flag table    *)
(* separated by ':' or ',', parseFlags() returns exactly the OR of the     *)
(* masks of the listed labels, NO_DEFAULT_CA contributing no bit and       *)
(* setting flags.tlsDefaultCa=false instead; without NO_DEFAULT_CA         *)
(* flags.tlsDefaultCa is unchanged.                                        *)
(***************************************************************************)
C2_FlagsAreOrOfMasks ==
    LastParsed("flags=") =>
        LET text   == DropFirst(Last.token, 6)
            labels == Range(Words(text, ""))
        IN  (text # "" /\ labels \subseteq FlagLabels) =>
                /\ ~aborted
                /\ opts.parsedFlags =
                      UNION { MaskOfLabel(l) : l \in labels \ {"NO_DEFAULT_CA"} }
                /\ opts.flags.tlsDefaultCa =
                      IF "NO_DEFAULT_CA" \in labels THEN FALSE
                      ELSE Last.before.flags.tlsDefaultCa

(***************************************************************************)
(* C3: a non-empty flags= text with a word that is not a label of the flag *)
(* table (flags=BOGUS) ends parseFlags() in fatal(): the run does not      *)
(* continue with a bitmask or a modified flags.tlsDefaultCa.               *)
(***************************************************************************)
C3_UnknownFlagIsFatal ==
    LastParsed("flags=") =>
        LET text   == DropFirst(Last.token, 6)
            labels == Range(Words(text, ""))
        IN  (text # "" /\ ~(labels \subseteq FlagLabels)) => aborted

(***************************************************************************)
(* C4: cache invariant.  In every state reached by parse() directives and  *)
(* updateTlsVersionLimits()/createClientContext() calls in which           *)
(* sslOptions is non-empty, parsedOptions contains every bit that          *)
(* resolving the current sslOptions text yields, and its extra bits are    *)
(* min-version floor bits only; so once the legacy version= translation    *)
(* has appended disable names to sslOptions their bits are in              *)
(* parsedOptions.                                                          *)
(***************************************************************************)
FloorBits == SSL_OP_NO_TLSv1 \cup SSL_OP_NO_TLSv1_1 \cup SSL_OP_NO_TLSv1_2

\* parsedOptions holds what the text resolves to, plus floor bits at most
Reflects(parsedOptions, resolved) ==
    /\ ~resolved.fatal
    /\ resolved.op \subseteq parsedOptions
    /\ parsedOptions \ resolved.op \subseteq FloorBits

C4_ParsedOptionsReflectText ==
    (~aborted /\ opts.sslOptions # "") =>
        Reflects(opts.parsedOptions, parseOptions(opts.sslOptions))

(***************************************************************************)
(* C5: the legacy translation happens exactly once.  With tlsMinVersion    *)
(* empty and sslVersion = c in 3..6, updateTlsVersionLimits() appends to   *)
(* sslOptions, after a comma when there is text already, the names of      *)
(* NO_SSLv3, NO_TLSv1, NO_TLSv1_1, NO_TLSv1_2 except the one of the        *)
(* protocol c selects (3 SSLv3, 4 TLSv1, 5 TLSv1_1, 6 TLSv1_2), sets       *)
(* sslVersion to 0 and changes nothing else; every later                   *)
(* updateTlsVersionLimits() with tlsMinVersion still empty and no version= *)
(* directive in between leaves the whole entity unchanged.                 *)
(***************************************************************************)
DisableNames == << "NO_SSLv3", "NO_TLSv1", "NO_TLSv1_1", "NO_TLSv1_2" >>

Joined(name, rest) == IF rest = "" THEN name ELSE name \o "," \o rest

\* the names of DisableNames from index i on, except index skipped, with commas
RECURSIVE NamesExcept(_, _)
NamesExcept(i, skipped) ==
    IF i > Len(DisableNames) THEN ""
    ELSE IF i = skipped THEN NamesExcept(i + 1, skipped)
    ELSE Joined(DisableNames[i], NamesExcept(i + 1, skipped))

\* operation number i of the history was a legacy translation
Translated(i) ==
    /\ hist[i].op \in {"updateTlsVersionLimits", "createClientContext"}
    /\ hist[i].before.tlsMinVersion = ""
    /\ hist[i].before.sslVersion \in 3..6

\* a legacy translation has happened and no version= directive was parsed
\* between it and the last operation
TranslatedBefore ==
    \E i \in 1..(Len(hist) - 1) :
        /\ Translated(i)
        /\ \A j \in (i + 1)..(Len(hist) - 1) :
              ~(hist[j].op = "parse" /\ StartsWith(hist[j].token, "version="))

C5_LegacyTranslationOnce ==
    (LastReconciled /\ ~aborted /\ Last.before.tlsMinVersion = "") =>
        /\ Translated(Len(hist)) =>
              opts = [Last.before EXCEPT
                        !.sslOptions =
                            IF @ = "" THEN NamesExcept(1, Last.before.sslVersion - 2)
                            ELSE @ \o "," \o NamesExcept(1, Last.before.sslVersion - 2),
                        !.sslVersion = 0]
        /\ TranslatedBefore => opts = Last.before

C5_Witness ==
    /\ Len(hist) >= 3
    /\ LastReconciled
    /\ Last.before.tlsMinVersion = ""
    /\ TranslatedBefore
    /\ Translated(Len(hist) - 1)
    /\ hist[Len(hist) - 1].before.sslVersion = 4
    /\ opts.sslOptions = "NO_SSLv3,NO_TLSv1_1,NO_TLSv1_2"
    /\ opts.sslVersion = 0

(***************************************************************************)
(* C6: with tlsMinVersion set, updateTlsVersionLimits() ORs into           *)
(* parsedOptions exactly the disable bits of the TLS versions strictly     *)
(* below 1.N when the text is 1.N with N in 0..3 (none; NO_TLSv1;          *)
(* NO_TLSv1 and NO_TLSv1_1; all three) and changes no other bit; for any   *)
(* other text (1.9, 2.0, 1.12, an empty minor) parsedOptions is unchanged. *)
(***************************************************************************)
BitsBelow(text) ==
    CASE text = "1.0" -> {}
      [] text = "1.1" -> SSL_OP_NO_TLSv1
      [] text = "1.2" -> SSL_OP_NO_TLSv1 \cup SSL_OP_NO_TLSv1_1
      [] text = "1.3" -> SSL_OP_NO_TLSv1 \cup SSL_OP_NO_TLSv1_1
                            \cup SSL_OP_NO_TLSv1_2
      [] OTHER -> {}

C6_MinVersionFloor ==
    (LastReconciled /\ Last.before.tlsMinVersion # "") =>
        opts.parsedOptions =
            Last.before.parsedOptions \cup BitsBelow(Last.before.tlsMinVersion)

(***************************************************************************)
(* C7: credential pairing.  cert=P appends one entry {certFile=P,          *)
(* privateKeyFile=P}; key=K overwrites privateKeyFile of the last entry    *)
(* only, and only if certs is non-empty and that entry's certFile is       *)
(* non-empty; otherwise key=K leaves the whole entity unchanged.  The      *)
(* number of entries of certs is the number of cert= directives since the  *)
(* last disable.                                                           *)
(***************************************************************************)
\* operation number i parsed a token that starts with the directive prefix
ParsedAt(i, directive) ==
    hist[i].op = "parse" /\ StartsWith(hist[i].token, directive)

CertDirectivesSinceDisable ==
    Cardinality({ i \in 1..Len(hist) :
                    /\ ParsedAt(i, "cert=")
                    /\ \A j \in (i + 1)..Len(hist) : ~ParsedAt(j, "disable") })

C7_CredentialPairing ==
    /\ LastParsed("cert=") =>
          LET path == DropFirst(Last.token, 5)
          IN  opts.certs = Append(Last.before.certs,
                                  [certFile |-> path, privateKeyFile |-> path])
    /\ LastParsed("key=") =>
          LET old == Last.before.certs
              n   == Len(old)
          IN  IF n > 0 /\ old[n].certFile # ""
              THEN /\ Len(opts.certs) = n
                   /\ \A i \in 1..(n - 1) : opts.certs[i] = old[i]
                   /\ opts.certs[n] = [certFile |-> old[n].certFile,
                                       privateKeyFile |-> DropFirst(Last.token, 4)]
              ELSE opts = Last.before
    /\ Len(opts.certs) = CertDirectivesSinceDisable

C7_Witness ==
    /\ LastParsed("key=/a.key")
    /\ Len(Last.before.certs) = 2
    /\ opts.certs = << [certFile |-> "/a.pem", privateKeyFile |-> "/a.pem"],
                       [certFile |-> "/b.pem", privateKeyFile |-> "/a.key"] >>

(***************************************************************************)
(* C8: after parse("disable"), whatever directives came before, the entity *)
(* equals a default-constructed one (certs and caFiles empty, sslOptions   *)
(* and sslFlags empty, parsedOptions and parsedFlags zero, flags at their  *)
(* defaults) with encryptTransport=false, and dumpCfg() emits the single   *)
(* token "<prefix>disable".                                                *)
(***************************************************************************)
C8_DisableResets ==
    LastParsed("disable") =>
        /\ ~aborted
        /\ opts.certs = << >> /\ opts.caFiles = << >> /\ opts.parsedCrl = << >>
        /\ opts.sslOptions = "" /\ opts.sslFlags = ""
        /\ opts.caDir = "" /\ opts.crlFile = "" /\ opts.sslCipher = ""
        /\ opts.sslDomain = "" /\ opts.tlsMinVersion = ""
        /\ opts.parsedOptions = {} /\ opts.parsedFlags = {}
        /\ opts.sslVersion = 0
        /\ opts.flags.tlsDefaultCa /\ opts.flags.tlsNpn
        /\ ~opts.encryptTransport
        /\ dumpCfg(opts, "tls-") = << "tls-disable" >>

C8_Witness ==
    /\ LastParsed("disable")
    /\ Len(hist) = 3
    /\ Last.before.encryptTransport
    /\ Last.before.certs # << >>
    /\ ~Last.before.flags.tlsNpn
    /\ opts.certs = << >>
    /\ ~opts.encryptTransport

(***************************************************************************)
(* C9: parse(token) with a non-empty token that starts with none of the    *)
(* recognized directive prefixes leaves every field of the entity          *)
(* unchanged, encryptTransport included; every recognized directive other  *)
(* than disable that is applied successfully leaves encryptTransport=true. *)
(***************************************************************************)
Recognized ==
    {"disable", "cert=", "key=", "version=", "min-version=", "options=",
     "cipher=", "cafile=", "capath=", "crlfile=", "flags=", "no-default-ca",
     "domain=", "no-npn"}

\* the last operation was a key= directive that parse() rejects
KeyRejected ==
    /\ LastParsed("key=")
    /\ \/ Last.before.certs = << >>
       \/ Last.before.certs[Len(Last.before.certs)].certFile = ""

C9_UnknownTokenChangesNothing ==
    (hist # << >> /\ Last.op = "parse") =>
        /\ (Last.token # "" /\ \A d \in Recognized : ~StartsWith(Last.token, d))
              => (opts = Last.before /\ ~aborted)
        /\ ( /\ \E d \in Recognized \ {"disable"} : StartsWith(Last.token, d)
             /\ ~aborted
             /\ ~KeyRejected )
              => opts.encryptTransport

C9_Witness ==
    /\ LastParsed("sslkey=/a.key")
    /\ Len(hist) = 3
    /\ hist[1].token = "cert=/a.pem"
    /\ hist[2].token = "disable"
    /\ opts = Last.before
    /\ ~opts.encryptTransport

(***************************************************************************)
(* C10: dump/reparse round trip.  For every entity reached by parse()      *)
(* directives with encryptTransport=true, parsing the tokens dumpCfg()     *)
(* emits (prefix stripped), in order, into a fresh default entity gives an *)
(* entity with equal certs, caFiles, caDir, crlFile, sslFlags, sslOptions, *)
(* flags.tlsDefaultCa and flags.tlsNpn.                                    *)
(***************************************************************************)
RECURSIVE Reparse(_, _)
ReparseRest(tokens, r) == IF r.fatal THEN r ELSE Reparse(tokens, r.o)

Reparse(tokens, p) ==
    IF tokens = << >> THEN Done(p)
    ELSE ReparseRest(Tail(tokens), parse(p, Head(tokens)))

\* the dumped tokens without their prefix
Stripped(dump, pfx) == [i \in 1..Len(dump) |-> DropFirst(dump[i], Len(pfx))]

\* the entity parsed back from the dump of p under the prefix pfx
RoundTrip(p, pfx) ==
    Reparse(Stripped(dumpCfg(p, pfx), pfx), PeerOptions)

SameConfiguration(a, b) ==
    /\ a.certs = b.certs
    /\ a.caFiles = b.caFiles
    /\ a.caDir = b.caDir
    /\ a.crlFile = b.crlFile
    /\ a.sslFlags = b.sslFlags
    /\ a.sslOptions = b.sslOptions
    /\ a.flags.tlsDefaultCa = b.flags.tlsDefaultCa
    /\ a.flags.tlsNpn = b.flags.tlsNpn

ParsedBackAs(back, p) == ~back.fatal /\ SameConfiguration(back.o, p)

RoundTrips == ParsedBackAs(RoundTrip(opts, "tls-"), opts)

C10_DumpReparseRoundTrip ==
    (~aborted /\ opts.encryptTransport) => RoundTrips

(***************************************************************************)
(* C10 as amended: the round trip holds for every entity reached by        *)
(* parse() directives with encryptTransport=true in which every entry of   *)
(* certs has a non-empty certFile and a non-empty privateKeyFile (an entry *)
(* made by an empty cert= is not dumped, and a key emptied by an empty     *)
(* key= is dumped as the certificate path).                                *)
(***************************************************************************)
CredentialsNamed ==
    \A i \in 1..Len(opts.certs) :
        opts.certs[i].certFile # "" /\ opts.certs[i].privateKeyFile # ""

C10_RoundTripOfNamedCredentials ==
    (~aborted /\ opts.encryptTransport /\ CredentialsNamed) => RoundTrips

C10_Witness ==
    /\ ~aborted
    /\ opts.encryptTransport
    /\ CredentialsNamed
    /\ Len(opts.certs) = 2
    /\ opts.certs[1].privateKeyFile = "/a.key"
    /\ Len(dumpCfg(opts, "tls-")) = 3
    /\ RoundTrips

(***************************************************************************)
(* C11: in every build configuration (OpenSSL, GnuTLS, no TLS library) a   *)
(* createClientContext() call either returns an allocated context or ends  *)
(* in fatal(); it never returns a null context.                            *)
(***************************************************************************)
LastBuilt == hist # << >> /\ Last.op = "createClientContext"

C11_NeverReturnsNull == LastBuilt => (aborted \/ ctx.allocated)

(***************************************************************************)
(* C12: once the directives are parsed, a createClientContext() call, for  *)
(* either value of its argument, leaves every field of the entity as it    *)
(* found it.                                                                *)
(***************************************************************************)
C12_BuildMutatesNothing == LastBuilt => opts = Last.before

(***************************************************************************)
(* C13: after every crlfile=PATH directive parsedCrl holds exactly the     *)
(* records of that file, in file order, and nothing of an earlier load: a  *)
(* file of k records gives k entries; a path that does not open gives an   *)
(* empty parsedCrl and no fatal(), with crlFile set to PATH and            *)
(* encryptTransport true.                                                  *)
(***************************************************************************)
\* the records of the file at path, in file order; none when it does not open
RecordsOf(path) ==
    IF path \in DOMAIN CrlRecords
    THEN [i \in 1..CrlRecords[path] |-> [file |-> path, record |-> i]]
    ELSE << >>

CrlLoadedFrom(path) ==
    /\ ~aborted
    /\ opts.crlFile = path
    /\ opts.encryptTransport
    /\ opts.parsedCrl = RecordsOf(path)
    /\ \A i \in 1..Len(opts.parsedCrl) : opts.parsedCrl[i].file = path
    /\ path \notin DOMAIN CrlRecords => opts.parsedCrl = << >>

C13_CrlFileReplacesParsedCrl ==
    LastParsed("crlfile=") => CrlLoadedFrom(DropFirst(Last.token, 8))

\* three records replace one, and a path that does not open empties the list
C13_Witness ==
    \/ /\ ParsedInARow(<< "crlfile=/crl1", "crlfile=/crl3" >>)
       /\ Len(opts.parsedCrl) = 3
    \/ /\ ParsedInARow(<< "crlfile=/crl3", "crlfile=/missing" >>)
       /\ opts.parsedCrl = << >> /\ opts.crlFile = "/missing"

(***************************************************************************)
(* C14: one updateTlsVersionLimits() call does at most one of: ORing the   *)
(* min-version floor bits into parsedOptions; appending the legacy disable *)
(* list to sslOptions and zeroing sslVersion.  When tlsMinVersion is set   *)
(* and parseable the call leaves sslVersion and sslOptions as they were,   *)
(* whatever sslVersion is.                                                 *)
(***************************************************************************)
ParseableMinVersions == {"1.0", "1.1", "1.2", "1.3"}

FloorApplied == opts.parsedOptions # Last.before.parsedOptions

LegacyApplied ==
    \/ opts.sslOptions # Last.before.sslOptions
    \/ opts.sslVersion # Last.before.sslVersion

C14_OneReconciliationPath ==
    LastReconciled =>
        /\ ~(FloorApplied /\ LegacyApplied)
        /\ Last.before.tlsMinVersion \in ParseableMinVersions =>
              /\ opts.sslVersion = Last.before.sslVersion
              /\ opts.sslOptions = Last.before.sslOptions

\* min-version=1.2 together with version=3..6: only the floor bits are applied
C14_Witness ==
    /\ LastReconciled
    /\ Last.before.tlsMinVersion = "1.2"
    /\ Last.before.sslVersion \in 3..6
    /\ FloorApplied
    /\ opts.sslVersion = Last.before.sslVersion

(***************************************************************************)
(* C15: a context build applies every caFiles entry on its own, then caDir *)
(* whenever caDir is set (also with no caFiles entry), then the system     *)
(* trust store exactly when flags.tlsDefaultCa is true; a step that fails   *)
(* is only logged, the remaining steps still run and the context is        *)
(* returned.                                                               *)
(***************************************************************************)
\* the last operation was a createClientContext() that returned a context
LastReturnedContext == LastBuilt /\ ~aborted /\ ctx.allocated

SystemTrustCalls ==
    {"SSL_CTX_set_default_verify_paths",
     "gnutls_certificate_set_x509_system_trust"}

CaFilesApplied ==
    /\ Len(ctx.trust) >= Len(opts.caFiles)
    /\ \A i \in 1..Len(opts.caFiles) : ctx.trust[i].file = opts.caFiles[i]

CaDirApplied == \E i \in 1..Len(ctx.trust) : ctx.trust[i].dir = opts.caDir

SystemTrustApplied ==
    /\ ctx.trust # << >>
    /\ ctx.trust[Len(ctx.trust)].call \in SystemTrustCalls

C15_TrustSteps ==
    LastReturnedContext =>
        /\ CaFilesApplied
        /\ opts.caDir # "" => CaDirApplied
        /\ SystemTrustApplied <=> opts.flags.tlsDefaultCa
        /\ Len(ctx.trust) >=
              Len(opts.caFiles) + (IF opts.flags.tlsDefaultCa THEN 1 ELSE 0)

(***************************************************************************)
(* C16: a context build of the OpenSSL build enables strict (chain and     *)
(* leaf) CRL checking exactly when parsedFlags has the VERIFY_CRL_ALL bit; *)
(* otherwise it enables leaf-only CRL checking exactly when at least one   *)
(* parsedCrl entry was installed in the store or parsedFlags has the       *)
(* VERIFY_CRL bit; otherwise it sets no CRL checking flag.  Every          *)
(* parsedCrl entry is offered to the store, also after one was refused.    *)
(***************************************************************************)
StrictCrlChecking == X509_V_FLAG_CRL_CHECK \cup X509_V_FLAG_CRL_CHECK_ALL

LeafCrlChecking == X509_V_FLAG_CRL_CHECK

CrlInstalled == \E i \in 1..Len(ctx.crl) : ctx.crl[i].ok

VerifyAllFlag == SSL_FLAG_VERIFY_CRL_ALL \subseteq opts.parsedFlags

VerifyFlag == SSL_FLAG_VERIFY_CRL \subseteq opts.parsedFlags

EveryCrlOffered ==
    /\ Len(ctx.crl) = Len(opts.parsedCrl)
    /\ \A i \in 1..Len(ctx.crl) : ctx.crl[i].crl = opts.parsedCrl[i]

C16_RevocationMode ==
    LastReturnedContext =>
        /\ EveryCrlOffered
        /\ ctx.crlCheck = StrictCrlChecking <=> VerifyAllFlag
        /\ ~VerifyAllFlag =>
              /\ ctx.crlCheck = LeafCrlChecking <=> (CrlInstalled \/ VerifyFlag)
              /\ ~(CrlInstalled \/ VerifyFlag) => ctx.crlCheck = {}

\* the first CRL is refused, a later one is installed: leaf-only checking
C16_Witness ==
    /\ LastReturnedContext
    /\ Len(ctx.crl) = 3
    /\ ~ctx.crl[1].ok
    /\ ctx.crl[3].ok
    /\ ~VerifyAllFlag /\ ~VerifyFlag
    /\ ctx.crlCheck = LeafCrlChecking

(***************************************************************************)
(* C17: parseOptions() is a left-to-right fold over the terms of           *)
(* sslOptions that starts from 0: an add term ('+' or no sign) ORs its     *)
(* value in, a remove term ('-' or '!') ANDs the complement in, a bareword *)
(* that matches no name adds nothing and does not stop the later terms;    *)
(* after the fold the NO_SSLv2 bit is forced on, also for texts that       *)
(* remove it.  The result depends on the text alone.                       *)
(***************************************************************************)
HexDigits == CharsOf(DIGIT) \cup CharsOf("abcdefABCDEF")

IsHexLiteral(body) ==
    /\ Len(body) > 2
    /\ SubSeq(body, 1, 2) = "0x"
    /\ CharsOf(DropFirst(body, 2)) \subseteq HexDigits

\* what a term body stands for: the number of a hex literal, the mask of a
\* table name, nothing for any other bareword
BodyValue(body) ==
    IF IsHexLiteral(body) THEN BitsOf(int64(body, 16, npos).value)
    ELSE LookupOption(body, 1)

IsRemoveTerm(word) == word # "" /\ Head(word) \in {"-", "!"}

BodyOf(word) ==
    IF word # "" /\ Head(word) \in {"-", "!", "+"} THEN Tail(word) ELSE word

FoldTerm(acc, word) ==
    IF IsRemoveTerm(word) THEN acc \ BodyValue(BodyOf(word))
    ELSE acc \cup BodyValue(BodyOf(word))

RECURSIVE FoldTerms(_, _)
FoldTerms(words, acc) ==
    IF words = << >> THEN acc
    ELSE FoldTerms(Tail(words), FoldTerm(acc, Head(words)))

\* every term of the text is an optional sign and a hex literal or bareword
TermsAreWords(words) ==
    \A i \in 1..Len(words) : CharsOf(BodyOf(words[i])) \subseteq optChars

FoldOf(text) == FoldTerms(Words(text, ""), {}) \cup SSL_OP_NO_SSLv2

C17_OptionsAreAFold ==
    (LastParsed("options=") /\ TermsAreWords(Words(DropFirst(Last.token, 8), "")))
        => /\ ~aborted
           /\ opts.parsedOptions = FoldOf(DropFirst(Last.token, 8))

(***************************************************************************)
(* C18: in parseOptions() a term body that is a base-16 literal gives its  *)
(* number whatever the name table holds (options=0x4 gives bit 0x4), and a *)
(* term body equal to a name of the table gives that entry's bitmask       *)
(* without fatal(), for every name of the table, also for the names that   *)
(* begin with a hexadecimal digit letter (ALL, EPHEMERAL_RSA,              *)
(* CIPHER_SERVER_PREFERENCE).                                              *)
(***************************************************************************)
ResolvedTo(value) ==
    ~aborted /\ opts.parsedOptions = value \cup SSL_OP_NO_SSLv2

C18_TermResolution ==
    LastParsed("options=") =>
        /\ Last.token = "options=0x4" => ResolvedTo(BitsOf(4))
        /\ DropFirst(Last.token, 8) \in OptionNames =>
              ResolvedTo(LookupOption(DropFirst(Last.token, 8), 1))

(***************************************************************************)
(* C19: when two or more createClientContext() calls run at the same time  *)
(* on one entity that was loaded with version=c (c in 3..6) and no         *)
(* min-version, then under every interleaving the legacy disable list is   *)
(* appended to sslOptions exactly once and sslVersion ends at 0.           *)
(***************************************************************************)
AllReturned == \A t \in Callers : calls[t].pc = "returned"

\* the entity as the directives left it: what the first call started from
Loaded ==
    hist[CHOOSE i \in 1..Len(hist) :
            /\ hist[i].op = "createClientContext"
            /\ \A j \in 1..(i - 1) : hist[j].op = "parse"].before

LoadedWithLegacyVersion ==
    Loaded.tlsMinVersion = "" /\ Loaded.sslVersion \in 3..6

C19_LegacyAppendedOnceByAll ==
    (AllReturned /\ LoadedWithLegacyVersion) =>
        /\ opts.sslOptions =
              AppendOptions(Loaded.sslOptions, LegacyAdd(Loaded.sslVersion))
        /\ opts.sslVersion = 0

(***************************************************************************)
(* C20: a PeerOptions copy-constructed from an entity that any sequence of *)
(* directives has produced carries every configuration field of the        *)
(* original, tlsMinVersion included, so updateTlsVersionLimits() on the    *)
(* copy gives the parsedOptions, sslOptions and sslVersion it gives on the *)
(* original.                                                               *)
(***************************************************************************)
LastCopied == hist # << >> /\ Last.op = "copy"

\* the last two operations: a copy construction, then updateTlsVersionLimits()
\* on the copy
CopyReconciled ==
    /\ Len(hist) >= 2
    /\ Last.op = "updateTlsVersionLimits"
    /\ hist[Len(hist) - 1].op = "copy"

SameLimits(p, q) ==
    /\ p.parsedOptions = q.parsedOptions
    /\ p.sslOptions = q.sslOptions
    /\ p.sslVersion = q.sslVersion

C20_CopyEquivalence ==
    /\ LastCopied => opts = Last.before
    /\ CopyReconciled =>
          SameLimits(opts, updateTlsVersionLimits(hist[Len(hist) - 1].before))
====
